---- MODULE Spec2Model ----
(***************************************************************************)
(* Model of the quote pipeline of orca-quote-machine (src/app):            *)
(*   tasks.py            process_quote_request, run_processing_pipeline,   *)
(*                       send_failure_notification                         *)
(*   services/slicer.py  OrcaSlicerService.slice_model and the resolvers   *)
(*   services/pricing.py PricingService.calculate_quote                    *)
(*   services/telegram.py TelegramService                                  *)
(*   main.py             create_quote, get_task_status                     *)
(*   tasks.py            cleanup_old_files                                 *)
(*                                                                         *)
(* Conventions.                                                            *)
(*  - Text that the code parses is a tuple of one-character strings.       *)
(*  - A message (str(e), an f-string) is a sequence of tokens: the literal *)
(*    parts of the f-string and the interpolated values, in order.         *)
(*  - filament grams are kept in tenths of a gram, money in 1/300000 of a  *)
(*    dollar, so that calculate_quote is exact integer arithmetic.         *)
(*  - The interpreter is Python >= 3.11: asyncio.wait_for raises the       *)
(*    builtin TimeoutError.                                                *)
(*                                                                         *)
(* Five specifications share the variables:                                *)
(*   Spec        one process_quote_request run, step by step               *)
(*   CallSpec    one call of a pure function of the slicer or pricing      *)
(*               service                                                   *)
(*   ApiSpec     one create_quote request (main.py)                        *)
(*   PairSpec    two process_quote_request runs side by side               *)
(*   SweepSpec   one run next to the cleanup_old_files task                *)
(***************************************************************************)
EXTENDS Integers, Sequences, FiniteSets, TLC

VARIABLES
    rustAvailable,      \* tasks.py:21-27  validate_3d_model imported (TRUE) or None
    telegramConfigured, \* telegram.py:17,30  bot token and admin chat id are set
    uploads,            \* upload files that exist on disk, one path per quote
    tmpFs,              \* temporary directories: name -> [exists, files]
    proc,               \* the slicer subprocess of each quote
    pc,                 \* position of each process_quote_request run
    task_material,      \* the task's material argument (text; << >> for None or "")
    material_enum,      \* tasks.py:98-104
    tmpOf,              \* temp_dir of the quote's slice_model call
    pending,            \* exception in flight (or NoExc) while unwinding
    slicing_result,     \* result of slice_model
    cost_breakdown,     \* result of calculate_quote
    retval,             \* value process_quote_request is about to return
    outcome,            \* value process_quote_request returned
    stages,             \* history: stages executed by the run, in order
    failNotifs,         \* history: admin failure notifications attempted
    cleanupLog,         \* history: what the finally block did
    caught,             \* history: the exception the except clause caught
    observed,           \* history: what the collaborators did in this run
    probe,              \* a single call of one of the pure functions: input and result
    http,               \* main.py:82-208  each create_quote request: input, position, response
    scan                \* tasks.py:196-238  the cleanup_old_files task

vars == <<rustAvailable, telegramConfigured, uploads, tmpFs, proc, pc,
          task_material, material_enum, tmpOf, pending, slicing_result, cost_breakdown,
          retval, outcome, stages, failNotifs, cleanupLog, caught, observed,
          probe, http, scan>>

----------------------------------------------------------------------------
(* Bounds of the model *)

\* number of temporary directory names mkdtemp can draw from
MaxTmpNames == 2
\* number of files the slicer process writes during one run
MaxFiles == 2

QuoteIds == {1}
TmpNames == 1..MaxTmpNames

----------------------------------------------------------------------------
(* Characters and text *)

Digits == {"0", "1", "2", "3", "4", "5", "6", "7", "8", "9"}
Whitespace == {" ", "\t", "\n", "\r"}

UpperCase == <<"A","B","C","D","E","F","G","H","I","J","K","L","M",
               "N","O","P","Q","R","S","T","U","V","W","X","Y","Z">>
LowerCase == <<"a","b","c","d","e","f","g","h","i","j","k","l","m",
               "n","o","p","q","r","s","t","u","v","w","x","y","z">>

DigitVal(c) == CHOOSE n \in 0..9 : <<"0","1","2","3","4","5","6","7","8","9">>[n + 1] = c

LowerChar(c) ==
    IF \E i \in 1..26 : UpperCase[i] = c
    THEN LowerCase[CHOOSE i \in 1..26 : UpperCase[i] = c]
    ELSE c

\* str.lower()
Lower(s) == [i \in 1..Len(s) |-> LowerChar(s[i])]

\* sub in s
Contains(s, sub) ==
    \E i \in 1..(Len(s) - Len(sub) + 1) : SubSeq(s, i, i + Len(sub) - 1) = sub

\* str.strip()
Strip(s) ==
    LET keep == {i \in 1..Len(s) : s[i] \notin Whitespace}
    IN  IF keep = {} THEN << >>
        ELSE LET lo == CHOOSE i \in keep : \A j \in keep : i <= j
                 hi == CHOOSE i \in keep : \A j \in keep : i >= j
             IN  SubSeq(s, lo, hi)

\* s.split(":")[-1]
AfterLastColon(s) ==
    LET cs == {i \in 1..Len(s) : s[i] = ":"}
    IN  IF cs = {} THEN s
        ELSE SubSeq(s, (CHOOSE i \in cs : \A j \in cs : i >= j) + 1, Len(s))

\* int() of a non-empty run of decimal digits
RECURSIVE IntOf(_)
IntOf(ds) ==
    IF ds = << >> THEN 0
    ELSE 10 * IntOf(SubSeq(ds, 1, Len(ds) - 1)) + DigitVal(ds[Len(ds)])

\* end of the maximal run of digits that starts at i (i - 1 when s[i] is no digit)
RECURSIVE DigitRunEnd(_, _)
DigitRunEnd(s, i) ==
    IF i <= Len(s) /\ s[i] \in Digits THEN DigitRunEnd(s, i + 1) ELSE i - 1

----------------------------------------------------------------------------
(* OrcaSlicerService._parse_time_string, slicer.py:263-290 *)

TimeMarker ==
    <<";"," ","e","s","t","i","m","a","t","e","d"," ","p","r","i","n","t","i","n","g"," ","t","i","m","e">>
FilamentMarker ==
    <<";"," ","f","i","l","a","m","e","n","t"," ","u","s","e","d">>
VolumeMarker ==
    <<";"," ","m","a","t","e","r","i","a","l"," ","v","o","l","u","m","e">>
NoiseEstimated ==
    <<"e","s","t","i","m","a","t","e","d">>
NoisePrinting ==
    <<"p","r","i","n","t","i","n","g">>
NoiseTime ==
    <<"t","i","m","e">>
NoiseColon ==
    <<":">>

\* the alternatives of the pattern (estimated|printing|time|:), in order
NoiseWords == <<NoiseEstimated, NoisePrinting, NoiseTime, NoiseColon>>

\* the alternative that matches at position i ignoring case, 0 when none does
NoiseAt(s, i) ==
    LET hits == {k \in 1..Len(NoiseWords) :
                    /\ i + Len(NoiseWords[k]) - 1 <= Len(s)
                    /\ Lower(SubSeq(s, i, i + Len(NoiseWords[k]) - 1)) = NoiseWords[k]}
    IN  IF hits = {} THEN 0 ELSE CHOOSE k \in hits : \A j \in hits : k <= j

\* re.sub(r"(estimated|printing|time|:)", "", s, flags=re.IGNORECASE) from position i on
RECURSIVE RemoveNoiseFrom(_, _)
RemoveNoiseFrom(s, i) ==
    IF i > Len(s) THEN << >>
    ELSE IF NoiseAt(s, i) # 0
         THEN RemoveNoiseFrom(s, i + Len(NoiseWords[NoiseAt(s, i)]))
         ELSE <<s[i]>> \o RemoveNoiseFrom(s, i + 1)

RemoveNoise(s) == RemoveNoiseFrom(s, 1)

NoMatch == [found |-> FALSE, value |-> 0]

\* re.search(r"(\d+)" + unit, s): int of group 1 of the leftmost match
SearchDigitsUnit(s, unit) ==
    LET starts == {i \in 1..Len(s) :
                      /\ s[i] \in Digits
                      /\ DigitRunEnd(s, i) + 1 <= Len(s)
                      /\ s[DigitRunEnd(s, i) + 1] = unit}
    IN  IF starts = {} THEN NoMatch
        ELSE LET i == CHOOSE k \in starts : \A j \in starts : k <= j
             IN  [found |-> TRUE, value |-> IntOf(SubSeq(s, i, DigitRunEnd(s, i)))]

\* re.search(r"(\d+)", s)
SearchDigits(s) ==
    LET starts == {i \in 1..Len(s) : s[i] \in Digits}
    IN  IF starts = {} THEN NoMatch
        ELSE LET i == CHOOSE k \in starts : \A j \in starts : k <= j
             IN  [found |-> TRUE, value |-> IntOf(SubSeq(s, i, DigitRunEnd(s, i)))]

\* minutes or 60
DefaultMinutes == 60

\* a parse that adds the hours without converting them to minutes
_parse_time_string_hours_unscaled(time_str) ==
    LET s            == Strip(RemoveNoise(time_str))
        hour_match   == SearchDigitsUnit(s, "h")
        minute_match == SearchDigitsUnit(s, "m")
        minute_only  == SearchDigits(s)
        minutes ==
            IF hour_match.found \/ minute_match.found
            THEN (IF hour_match.found THEN hour_match.value ELSE 0)
                 + (IF minute_match.found THEN minute_match.value ELSE 0)
            ELSE IF minute_only.found THEN minute_only.value ELSE 0
    IN  IF minutes # 0 THEN minutes ELSE DefaultMinutes

\* the parse without the `or 60` of slicer.py:290
_parse_time_string_no_default(time_str) ==
    LET s            == Strip(RemoveNoise(time_str))
        hour_match   == SearchDigitsUnit(s, "h")
        minute_match == SearchDigitsUnit(s, "m")
        minute_only  == SearchDigits(s)
    IN  IF hour_match.found \/ minute_match.found
        THEN (IF hour_match.found THEN hour_match.value * 60 ELSE 0)
             + (IF minute_match.found THEN minute_match.value ELSE 0)
        ELSE IF minute_only.found THEN minute_only.value ELSE 0

_parse_time_string(time_str) ==
    LET s            == Strip(RemoveNoise(time_str))
        hour_match   == SearchDigitsUnit(s, "h")
        minute_match == SearchDigitsUnit(s, "m")
        minute_only  == SearchDigits(s)
        minutes ==
            IF hour_match.found \/ minute_match.found
            THEN (IF hour_match.found THEN hour_match.value * 60 ELSE 0)
                 + (IF minute_match.found THEN minute_match.value ELSE 0)
            ELSE IF minute_only.found THEN minute_only.value ELSE 0
    IN  IF minutes # 0 THEN minutes ELSE DefaultMinutes

----------------------------------------------------------------------------
(* OrcaSlicerService._parse_gcode_metadata, slicer.py:211-251 *)

\* for _ in range(100)
ScanBudget == 100

\* fallback values of the except branch (grams in tenths)
FallbackMinutes == 60
FallbackGrams == 200

\* first index >= i that holds no whitespace (\s*)
RECURSIVE SkipSpace(_, _)
SkipSpace(s, i) ==
    IF i <= Len(s) /\ s[i] \in Whitespace THEN SkipSpace(s, i + 1) ELSE i

\* end of the text \d+\.?\d* matches from i on, where s[i] is a digit
NumberEnd(s, i) ==
    LET e1 == DigitRunEnd(s, i)
    IN  IF e1 + 1 <= Len(s) /\ s[e1 + 1] = "."
        THEN DigitRunEnd(s, e1 + 2)
        ELSE e1

\* float() of text matched by \d+\.?\d*, in tenths of a unit; the texts of the
\* model carry at most one fractional digit
FloatTenths(num) ==
    LET e1 == DigitRunEnd(num, 1)
    IN  10 * IntOf(SubSeq(num, 1, e1))
        + (IF e1 + 2 <= Len(num) THEN DigitVal(num[e1 + 2]) ELSE 0)

\* re.search(r"(\d+\.?\d*)\s*g", line): float of group 1 of the leftmost match
SearchGrams(line) ==
    LET starts == {i \in 1..Len(line) :
                      /\ line[i] \in Digits
                      /\ SkipSpace(line, NumberEnd(line, i) + 1) <= Len(line)
                      /\ line[SkipSpace(line, NumberEnd(line, i) + 1)] = "g"}
    IN  IF starts = {} THEN NoMatch
        ELSE LET i == CHOOSE k \in starts : \A j \in starts : k <= j
             IN  [found |-> TRUE,
                  value |-> FloatTenths(SubSeq(line, i, NumberEnd(line, i)))]

\* body of the loop for one line: acc = <<print_time_minutes, filament_grams>>
ScanLine(raw, acc) ==
    LET line == Strip(raw)
    IN  IF Contains(Lower(line), TimeMarker)
        THEN <<_parse_time_string(Strip(AfterLastColon(line))), acc[2]>>
        ELSE IF Contains(Lower(line), FilamentMarker) \/ Contains(Lower(line), VolumeMarker)
             THEN IF Contains(line, <<"g">>) /\ SearchGrams(line).found
                  THEN <<acc[1], SearchGrams(line).value>>
                  ELSE acc
             ELSE acc

\* the loop over the first n lines
RECURSIVE ScanLines(_, _)
ScanLines(lines, n) ==
    IF n = 0 THEN <<0, 0>>
    ELSE ScanLine(lines[n], ScanLines(lines, n - 1))

Min(a, b) == IF a <= b THEN a ELSE b

\* a scan that keeps what it has matched when a read fails
_parse_gcode_metadata_keeps_matches(file) ==
    LET reads == Min(ScanBudget, Len(file.lines) + 1)
    IN  IF file.readError # 0 /\ file.readError <= reads
        THEN ScanLines(file.lines, file.readError - 1)
        ELSE ScanLines(file.lines, Min(ScanBudget, Len(file.lines)))

\* A G-code file is [lines, readError]: its lines, and the number of the
\* readline call that raises (open failure or undecodable bytes), 0 for none.
_parse_gcode_metadata(file) ==
    LET reads == Min(ScanBudget, Len(file.lines) + 1)
    IN  IF file.readError # 0 /\ file.readError <= reads
        THEN <<FallbackMinutes, FallbackGrams>>
        ELSE ScanLines(file.lines, Min(ScanBudget, Len(file.lines)))

----------------------------------------------------------------------------
(* Exceptions: [type, msg]; str(e) is msg *)

NoExc == [type |-> "none", msg |-> << >>]
Exc(type, msg) == [type |-> type, msg |-> msg]

\* the result of a call that may raise
Returned(v) == [ok |-> TRUE, value |-> v, exc |-> NoExc]
Raised(e) == [ok |-> FALSE, value |-> 0, exc |-> e]

----------------------------------------------------------------------------
(* OrcaSlicerService._parse_json_metadata and _parse_slice_results,
   slicer.py:171-209 and 253-261 *)

\* A JSON side-file is [readable, wellFormed, value]; value is what json.loads
\* returns: [type |-> "object", members |-> [key -> v]], [type |-> "array",
\* len |-> n], [type |-> "number", v |-> n] or [type |-> "null"].
\* A member value is Num(n), a number, or NotNum, text that is no number.
None == [type |-> "null"]
Num(n) == [isNum |-> TRUE, n |-> n]
NotNum == [isNum |-> FALSE, n |-> 0]

\* returns data, or None from the except branch
_parse_json_metadata(file) ==
    IF file.readable /\ file.wellFormed THEN file.value ELSE None

\* bool(json_data)
Truthy(v) ==
    CASE v.type = "object" -> DOMAIN v.members # {}
      [] v.type = "array"  -> v.len > 0
      [] v.type = "number" -> v.v # 0
      [] OTHER             -> FALSE

\* a lookup that never finds the key
DictGet_default(v, key, default) == default

\* json_data.get(key, default)
DictGet(v, key, default) ==
    IF key \in DOMAIN v.members THEN v.members[key] ELSE default

\* SlicingResult(...): Field(..., ge=0) on both values
SlicingResult(print_time_minutes, filament_grams) ==
    IF /\ print_time_minutes.isNum /\ print_time_minutes.n >= 0
       /\ filament_grams.isNum /\ filament_grams.n >= 0
    THEN Returned([print_time_minutes    |-> print_time_minutes.n,
                   filament_weight_grams |-> filament_grams.n])
    ELSE Raised(Exc("ValidationError", <<"validation error for SlicingResult">>))

GcodeFiles(files) == {f \in files : f.ext = "gcode"}
JsonFiles(files) == {f \in files : f.ext = "json"}

\* gcode_first and json_first are gcode_files[0] and json_files[0]: glob yields
\* the entries in directory order, so any matching file can come first.
\* _parse_slice_results without the check of slicer.py:187-188
_parse_slice_results_unchecked(files, gcode_first, json_first) ==
    LET meta == _parse_gcode_metadata(gcode_first.content)
        json_data == IF JsonFiles(files) # {}
                     THEN _parse_json_metadata(json_first.content)
                     ELSE None
    IN  IF JsonFiles(files) # {} /\ Truthy(json_data) /\ json_data.type = "object"
        THEN SlicingResult(DictGet(json_data, "print_time_minutes", Num(meta[1])),
                           DictGet(json_data, "filament_grams", Num(meta[2])))
        ELSE SlicingResult(Num(meta[1]), Num(meta[2]))

_parse_slice_results(files, gcode_first, json_first) ==
    IF GcodeFiles(files) = {}
    THEN Raised(Exc("SlicerError", <<"No G-code output found">>))
    ELSE LET meta == _parse_gcode_metadata(gcode_first.content)
             json_data == IF JsonFiles(files) # {}
                          THEN _parse_json_metadata(json_first.content)
                          ELSE None
         IN  IF JsonFiles(files) # {} /\ Truthy(json_data)
             THEN IF json_data.type # "object"
                  THEN Raised(Exc("AttributeError",
                                  <<json_data.type, " object has no attribute 'get'">>))
                  ELSE SlicingResult(DictGet(json_data, "print_time_minutes", Num(meta[1])),
                                     DictGet(json_data, "filament_grams", Num(meta[2])))
             ELSE SlicingResult(Num(meta[1]), Num(meta[2]))

----------------------------------------------------------------------------
(* PricingService.calculate_quote, pricing.py:15-71, with the settings of
   core/config.py:75-85 *)

MaterialType == {"PLA", "PETG", "ASA"}

material_prices == [PLA |-> 25, PETG |-> 30, ASA |-> 35]
default_price_per_kg == 25
\* price_multiplier = 1.1
price_multiplier_num == 11
price_multiplier_den == 10
\* minimum_price = 5.0 dollars
minimum_price == 5
\* additional_time_hours = 0.5
additional_time_minutes == 30

\* money unit: 1/300000 dollar
Dollar == 30 * 10000

Max(a, b) == IF a >= b THEN a ELSE b

\* get_settings(): the defaults of core/config.py
Settings ==
    [material_prices         |-> material_prices,
     default_price_per_kg    |-> default_price_per_kg,
     price_multiplier_num    |-> price_multiplier_num,
     price_multiplier_den    |-> price_multiplier_den,
     minimum_price           |-> minimum_price,
     additional_time_minutes |-> additional_time_minutes]

\* pricing.py:31: material or MaterialType.PLA
MaterialOrPLA(material_arg) == IF material_arg = "None" THEN "PLA" ELSE material_arg

\* a rate that ignores the table
PricePerKg_default(settings, material) == settings.default_price_per_kg

\* pricing.py:34-36: settings.material_prices.get(material.value, default_price_per_kg)
PricePerKg(settings, material) ==
    IF material \in DOMAIN settings.material_prices
    THEN settings.material_prices[material]
    ELSE settings.default_price_per_kg

\* a material cost at the default rate, whatever the material
MaterialCost_flat(filament_tenths, price_per_kg) ==
    filament_tenths * default_price_per_kg * (Dollar \div 10000)

\* pricing.py:39, 47: grams / 1000.0 * price_per_kg (grams in tenths)
MaterialCost(filament_tenths, price_per_kg) ==
    filament_tenths * price_per_kg * (Dollar \div 10000)

\* pricing.py:42-44: minutes / 60.0 + additional_time_hours, kept in minutes
PrintTimeHours(settings, print_time_minutes) ==
    print_time_minutes + settings.additional_time_minutes

\* a time cost at one hourly rate for every material
TimeCost_flat(print_time_hours, price_per_kg) ==
    print_time_hours * default_price_per_kg * (Dollar \div 60)

\* pricing.py:48-50: print_time_hours * price_per_kg
TimeCost(print_time_hours, price_per_kg) ==
    print_time_hours * price_per_kg * (Dollar \div 60)

\* a subtotal rounded down to whole cents
Subtotal_in_cents(settings, material_cost, time_cost) ==
    ((((material_cost + time_cost) * settings.price_multiplier_num)
        \div settings.price_multiplier_den) \div (Dollar \div 100)) * (Dollar \div 100)

\* pricing.py:53: (material_cost + time_cost) * price_multiplier
Subtotal(settings, material_cost, time_cost) ==
    ((material_cost + time_cost) * settings.price_multiplier_num)
        \div settings.price_multiplier_den

\* a total without the minimum price
TotalCost_no_minimum(settings, subtotal) == subtotal

\* pricing.py:56: max(subtotal, minimum_price)
TotalCost(settings, subtotal) == Max(subtotal, settings.minimum_price * Dollar)

\* PricingService.calculate_quote under given settings; material_arg is a
\* member of MaterialType or "None"
PricingService_calculate_quote(settings, result, material_arg) ==
    LET material         == MaterialOrPLA(material_arg)
        price_per_kg     == PricePerKg(settings, material)
        print_time_hours == PrintTimeHours(settings, result.print_time_minutes)
        material_cost    == MaterialCost(result.filament_weight_grams, price_per_kg)
        time_cost        == TimeCost(print_time_hours, price_per_kg)
        subtotal         == Subtotal(settings, material_cost, time_cost)
        total_cost       == TotalCost(settings, subtotal)
    IN  [material_type      |-> material,
         filament_kg        |-> result.filament_weight_grams,
         filament_grams     |-> result.filament_weight_grams,
         print_time_hours   |-> print_time_hours,
         print_time_minutes |-> result.print_time_minutes,
         price_per_kg       |-> price_per_kg,
         material_cost      |-> material_cost,
         time_cost          |-> time_cost,
         subtotal           |-> subtotal,
         total_cost         |-> total_cost,
         minimum_applied    |-> (total_cost = settings.minimum_price * Dollar)]

\* calculate_quote of the deployed service: the settings are the defaults
calculate_quote(result, material_arg) ==
    PricingService_calculate_quote(Settings, result, material_arg)

----------------------------------------------------------------------------
(* What the slicer process can leave in its output directory *)

LineTime2h30m ==
    <<";"," ","e","s","t","i","m","a","t","e","d"," ","p","r","i","n","t","i","n","g"," ","t","i","m","e"," ","(","n","o","r","m","a","l"," ","m","o","d","e",")",":"," ","2","h"," ","3","0","m">>
LineFilament125 ==
    <<";"," ","f","i","l","a","m","e","n","t"," ","u","s","e","d",":"," ","1","2",".","5","g">>
LineG28 ==
    <<"G","2","8"," ",";"," ","h","o","m","e"," ","a","l","l"," ","a","x","e","s">>

GcodeFile(name, lines, readError) ==
    [name |-> name, ext |-> "gcode",
     content |-> [lines |-> lines, readError |-> readError]]

JsonFile(name, readable, wellFormed, value) ==
    [name |-> name, ext |-> "json",
     content |-> [readable |-> readable, wellFormed |-> wellFormed, value |-> value]]

JsonObject(members) == [type |-> "object", members |-> members]

CandidateFiles ==
    { GcodeFile("plate_1.gcode", <<LineTime2h30m, LineFilament125>>, 0),
      GcodeFile("plate_1.gcode", <<LineTime2h30m>>, 2),
      GcodeFile("plate_2.gcode", <<LineG28>>, 0),
      JsonFile("result.json", TRUE, TRUE, JsonObject([filament_grams |-> Num(352)])),
      JsonFile("result.json", TRUE, TRUE,
               JsonObject([print_time_minutes |-> Num(180), filament_grams |-> Num(352)])),
      JsonFile("result.json", TRUE, TRUE, JsonObject([print_time_minutes |-> NotNum])),
      JsonFile("result.json", TRUE, TRUE, [type |-> "array", len |-> 1]),
      JsonFile("result.json", TRUE, FALSE, None),
      [name |-> "slice.log", ext |-> "log", content |-> "text"] }

Names(files) == {f.name : f \in files}

\* how the slicer process can end: returncode, stderr and stdout as captured
\* by communicate() ("empty", "text", or bytes that are not UTF-8)
ExitKinds ==
    { [returncode |-> 0, stderr |-> "empty",       stdout |-> "text"],
      [returncode |-> 0, stderr |-> "text",        stdout |-> "undecodable"],
      [returncode |-> 1, stderr |-> "empty",       stdout |-> "text"],
      [returncode |-> 1, stderr |-> "text",        stdout |-> "text"],
      [returncode |-> 1, stderr |-> "undecodable", stdout |-> "text"] }

NoProc == [state |-> "none", returncode |-> 0, stderr |-> "empty", stdout |-> "text",
           written |-> 0]

\* bytes.decode(): the text, or UnicodeDecodeError
Decode(bytes) ==
    IF bytes = "undecodable"
    THEN Raised(Exc("UnicodeDecodeError", <<"'utf-8' codec can't decode byte">>))
    ELSE Returned(bytes)

----------------------------------------------------------------------------
(* OrcaSlicerService.slice_model, slicer.py:103-169 *)

\* the except clauses of lines 166-169, applied to what the try body raised
SliceExcept(e) ==
    IF e.type = "TimeoutError"
    THEN Exc("SlicerError", <<"Slicing operation timed out">>)
    ELSE Exc("SlicerError", <<"Slicing failed: ">> \o e.msg)

\* lines 159-164, once communicate() has returned: p is the ended process
SliceTryBody(p, files, gcode_first, json_first) ==
    IF p.returncode # 0
    THEN IF p.stderr = "empty"
         THEN Raised(Exc("SlicerError", <<"Slicer failed: ", "Unknown slicer error">>))
         ELSE IF Decode(p.stderr).ok
              THEN Raised(Exc("SlicerError", <<"Slicer failed: ", "stderr text">>))
              ELSE Decode(p.stderr)
    ELSE IF Decode(p.stdout).ok
         THEN _parse_slice_results(files, gcode_first, json_first)
         ELSE Decode(p.stdout)

\* lines 146-169 for an ended process: a SlicingResult, or the SlicerError raised
SliceAfterCommunicate(p, files, gcode_first, json_first) ==
    LET r == SliceTryBody(p, files, gcode_first, json_first)
    IN  IF r.ok THEN r ELSE Raised(SliceExcept(r.exc))

\* wait_for(process.communicate(), timeout) gives up: lines 155-157, 166-167
SliceOnTimeout == SliceExcept(Exc("TimeoutError", << >>))

\* create_subprocess_exec raises (no such binary, no permission): lines 148, 168-169
SliceOnSpawnError ==
    SliceExcept(Exc("FileNotFoundError", <<"No such file or directory: cli_path">>))

----------------------------------------------------------------------------
(* process_quote_request, tasks.py:69-136: values *)

\* str(uuid.uuid4()) and its first eight characters
quote_id(q) == [quote |-> q, short |-> FALSE]
short_quote_id(q) == [quote |-> q, short |-> TRUE]

NoSlicing == [print_time_minutes |-> 0 - 1, filament_weight_grams |-> 0 - 1]
NoCost == [material_type |-> "None", filament_kg |-> 0, filament_grams |-> 0,
           print_time_hours |-> 0, print_time_minutes |-> 0, price_per_kg |-> 0,
           material_cost |-> 0, time_cost |-> 0, subtotal |-> 0, total_cost |-> 0,
           minimum_applied |-> FALSE]

NoValue == [kind |-> "none", success |-> FALSE, quote_id |-> quote_id(0),
            error |-> << >>, slicing_result |-> NoSlicing, cost_breakdown |-> NoCost,
            notification_sent |-> FALSE]

\* tasks.py:177-187
SuccessRecord(q, result, cost, sent) ==
    [kind |-> "returned", success |-> TRUE, quote_id |-> quote_id(q),
     error |-> << >>, slicing_result |-> result, cost_breakdown |-> cost,
     notification_sent |-> sent]

\* tasks.py:122-127
FailureRecord(q, error_msg) ==
    [kind |-> "returned", success |-> FALSE, quote_id |-> quote_id(q),
     error |-> error_msg, slicing_result |-> NoSlicing, cost_breakdown |-> NoCost,
     notification_sent |-> FALSE]

\* an exception that leaves process_quote_request
Escaped(q, e) ==
    [kind |-> "raised", success |-> FALSE, quote_id |-> quote_id(q),
     error |-> e.msg, slicing_result |-> NoSlicing, cost_breakdown |-> NoCost,
     notification_sent |-> FALSE]

\* what validate_3d_model can do: a result, or an exception
ValidationOutcomes ==
    { [raises |-> FALSE, is_valid |-> TRUE,  error_message |-> "None"],
      [raises |-> FALSE, is_valid |-> FALSE, error_message |-> "not a closed mesh"],
      [raises |-> TRUE,  is_valid |-> FALSE, error_message |-> "None"] }

\* the validation step without the is_valid check of tasks.py:92-93
ValidationStep_unchecked(v) ==
    IF v.raises THEN Exc("Exception", <<"validator crashed">>) ELSE NoExc

\* tasks.py:91-95: the exception the validation step raises, or NoExc
ValidationStep(v) ==
    IF v.raises THEN Exc("Exception", <<"validator crashed">>)
    ELSE IF ~v.is_valid THEN Exc("Exception", <<"Invalid 3D model: ", v.error_message>>)
    ELSE NoExc

UpperChar(c) ==
    IF \E i \in 1..26 : LowerCase[i] = c
    THEN UpperCase[CHOOSE i \in 1..26 : LowerCase[i] = c]
    ELSE c

\* str.upper()
Upper(s) == [i \in 1..Len(s) |-> UpperChar(s[i])]

\* the values of the enum MaterialType, quote.py:10-14
MaterialValue == [PLA |-> <<"P","L","A">>, PETG |-> <<"P","E","T","G">>,
                  ASA |-> <<"A","S","A">>]

\* a parse that lets the unknown material through
ParseMaterial_no_fallback(m) ==
    IF m = << >> THEN "None"
    ELSE IF \E e \in MaterialType : MaterialValue[e] = Upper(m)
         THEN CHOOSE e \in MaterialType : MaterialValue[e] = Upper(m)
         ELSE "UNKNOWN"

\* tasks.py:98-104
ParseMaterial(m) ==
    IF m = << >> THEN "None"
    ELSE IF \E e \in MaterialType : MaterialValue[e] = Upper(m)
         THEN CHOOSE e \in MaterialType : MaterialValue[e] = Upper(m)
         ELSE "PLA"

MaterialInputs ==
    { << >>, <<"P","L","A">>, <<"p","e","t","g">>, <<"A","s","a">>, <<"T","P","U">> }

\* what the Telegram Bot API call can do
SinkOutcomes == {"ok", "TelegramError", "Exception"}

\* send_quote_notification without the catch-all of telegram.py:49-51
send_quote_notification_TelegramErrorOnly(configured, sink) ==
    IF ~configured THEN Returned(FALSE)
    ELSE IF sink = "ok" THEN Returned(TRUE)
    ELSE IF sink = "TelegramError" THEN Returned(FALSE)
    ELSE Raised(Exc("Exception", <<"connection reset">>))

\* TelegramService.send_quote_notification, telegram.py:20-51
send_quote_notification(configured, sink) ==
    IF ~configured THEN Returned(FALSE)
    ELSE IF sink = "ok" THEN Returned(TRUE)
    ELSE Returned(FALSE)

\* TelegramService.send_error_notification, telegram.py:53-69
send_error_notification(configured, sink) ==
    IF ~configured THEN Returned(FALSE)
    ELSE IF sink = "ok" THEN Returned(TRUE)
    ELSE Returned(FALSE)

\* no suppress around the failure notification
SuppressNothing(r) == r.exc

\* a cleanup that catches FileNotFoundError only
CleanupCatchesMissingFile(e) == e.type = "FileNotFoundError"

\* contextlib.suppress(Exception) around the failure notification, tasks.py:119-120:
\* the exception that gets past it
SuppressFailureNotification(r) == NoExc

\* the except clause of the cleanup, tasks.py:135: TRUE when e is caught
CleanupCatches(e) == TRUE

----------------------------------------------------------------------------
(* process_quote_request and slice_model as steps of one run *)

\* a try block whose steps swallow what they raise
AfterStep_swallowing(e, next) == next

\* an except clause that returns without the finally block
AfterExcept_return == "done"

\* where a run goes after a step of the try block: on to `next`, or to the
\* except clause of tasks.py:114 when the step raised
AfterStep(e, next) == IF e = NoExc THEN next ELSE "except"

\* where the run goes when the except clause is left: the finally block
AfterExcept == "finally_exists"

NoFile == GcodeFile("", << >>, 0)
FirstOf(fs) == IF fs = {} THEN {NoFile} ELSE fs

UnusedTmp == {d \in TmpNames : tmpFs[d].state = "unused"}

\* one fixed output directory for every call
FreshTmp_shared == CHOOSE d \in TmpNames : \A e \in TmpNames : d <= e

\* tempfile.TemporaryDirectory(): a directory no other call has
FreshTmp == CHOOSE d \in UnusedTmp : \A e \in UnusedTmp : d <= e

\* validation: "skipped", "valid", "invalid", "raised"; slicer: "spawn_error",
\* "timeout", "exit_zero", "exit_nonzero"; stderr: what the ended process left;
\* resolved: _parse_slice_results ran, on a directory with or without G-code
\* and JSON files; sink: what the Bot API did with the quote notification
NothingObserved ==
    [validation |-> "none", slicer |-> "none", stderr |-> "none",
     resolved |-> FALSE, gcode |-> FALSE, json |-> FALSE, others |-> FALSE,
     sink |-> "none"]

NoCall == [fn |-> "none"]

\* no request has been received. remove_failed: history, an os.remove of the
\* request's file raised and the file is left
NoRequest ==
    [pc |-> "none", filename |-> "none", material |-> << >>, discovered |-> {},
     service_fails |-> FALSE, form_valid |-> TRUE, chunks |-> 0,
     read |-> 0, written |-> 0, status |-> 0, detail |-> "none",
     reported |-> << >>, enqueued |-> FALSE, remove_failed |-> FALSE]

\* cleanup_old_files is not running
NoScan ==
    [pc |-> "idle", old |-> {}, listing |-> << >>, cleaned |-> {},
     result |-> "none"]

\* the tasks `ids` at position `at`, with the uploads `onDisk`; nothing has run
InitialRuns(ids, onDisk, at) ==
    /\ uploads = onDisk
    /\ tmpFs = [d \in TmpNames |-> [state |-> "unused", files |-> {}]]
    /\ proc = [q \in ids |-> NoProc]
    /\ pc = [q \in ids |-> at]
    /\ material_enum = [q \in ids |-> "None"]
    /\ tmpOf = [q \in ids |-> 0]
    /\ pending = [q \in ids |-> NoExc]
    /\ slicing_result = [q \in ids |-> NoSlicing]
    /\ cost_breakdown = [q \in ids |-> NoCost]
    /\ retval = [q \in ids |-> NoValue]
    /\ outcome = [q \in ids |-> NoValue]
    /\ stages = [q \in ids |-> << >>]
    /\ failNotifs = [q \in ids |-> << >>]
    /\ cleanupLog = [q \in ids |-> "none"]
    /\ caught = [q \in ids |-> NoExc]
    /\ observed = [q \in ids |-> NothingObserved]
    /\ http = [q \in ids |-> NoRequest]
    /\ scan = NoScan

\* the runs `ids` are queued: their uploads are on disk
QueuedRuns(ids) == InitialRuns(ids, ids, "queued")

\* every run is queued
Queued == QueuedRuns(QuoteIds)

Init ==
    /\ rustAvailable \in BOOLEAN
    /\ telegramConfigured \in BOOLEAN
    /\ task_material \in [QuoteIds -> MaterialInputs]
    /\ Queued
    /\ probe = NoCall

\* what no step of a run changes
config == <<rustAvailable, telegramConfigured, task_material, probe, http, scan>>

\* tasks.py:84-87: the worker takes the task
Start(q) ==
    /\ pc[q] = "queued"
    /\ pc' = [pc EXCEPT ![q] = "validate"]
    /\ UNCHANGED <<config, caught, observed, uploads, tmpFs, proc, material_enum, tmpOf, pending,
                   slicing_result, cost_breakdown, retval, outcome, stages,
                   failNotifs, cleanupLog>>

\* tasks.py:90-95
Validate(q) ==
    /\ pc[q] = "validate"
    /\ IF ~rustAvailable
       THEN /\ pc' = [pc EXCEPT ![q] = "parse_material"]
            /\ observed' = [observed EXCEPT ![q].validation = "skipped"]
            /\ UNCHANGED <<pending, stages>>
       ELSE \E v \in ValidationOutcomes :
            /\ stages' = [stages EXCEPT ![q] = Append(@, "validate")]
            /\ pending' = [pending EXCEPT ![q] = ValidationStep(v)]
            /\ observed' = [observed EXCEPT ![q].validation =
                                IF v.raises THEN "raised"
                                ELSE IF v.is_valid THEN "valid" ELSE "invalid"]
            /\ pc' = [pc EXCEPT ![q] = AfterStep(ValidationStep(v), "parse_material")]
    /\ UNCHANGED <<config, caught, uploads, tmpFs, proc, material_enum, tmpOf,
                   slicing_result, cost_breakdown, retval, outcome,
                   failNotifs, cleanupLog>>

\* tasks.py:97-104
ParseMaterialStep(q) ==
    /\ pc[q] = "parse_material"
    /\ material_enum' = [material_enum EXCEPT ![q] = ParseMaterial(task_material[q])]
    /\ pc' = [pc EXCEPT ![q] = "slice_enter"]
    /\ UNCHANGED <<config, caught, observed, uploads, tmpFs, proc, tmpOf, pending,
                   slicing_result, cost_breakdown, retval, outcome, stages,
                   failNotifs, cleanupLog>>

\* slicer.py:119-126: the model file is there, the profiles are resolved (always,
\* for a member of MaterialType), the temporary directory is made
SliceEnter(q) ==
    /\ pc[q] = "slice_enter"
    /\ stages' = [stages EXCEPT ![q] = Append(@, "slice")]
    /\ IF q \notin uploads
       THEN /\ pending' = [pending EXCEPT ![q] =
                              Exc("SlicerError", <<"Model file not found: ", "model_path">>)]
            /\ pc' = [pc EXCEPT ![q] = "except"]
            /\ UNCHANGED <<tmpFs, tmpOf>>
       ELSE IF UnusedTmp = {}
       THEN /\ pending' = [pending EXCEPT ![q] =
                              Exc("FileExistsError", <<"No usable temporary directory name found">>)]
            /\ pc' = [pc EXCEPT ![q] = "except"]
            /\ UNCHANGED <<tmpFs, tmpOf>>
       ELSE /\ tmpFs' = [tmpFs EXCEPT ![FreshTmp] = [state |-> "exists", files |-> {}]]
            /\ tmpOf' = [tmpOf EXCEPT ![q] = FreshTmp]
            /\ pc' = [pc EXCEPT ![q] = "spawn"]
            /\ UNCHANGED pending
    /\ UNCHANGED <<config, caught, observed, uploads, proc, material_enum,
                   slicing_result, cost_breakdown, retval, outcome,
                   failNotifs, cleanupLog>>

\* slicer.py:148-153: asyncio.create_subprocess_exec
Spawn(q) ==
    /\ pc[q] = "spawn"
    /\ \E started \in BOOLEAN :
       IF started
       THEN /\ proc' = [proc EXCEPT ![q] = [NoProc EXCEPT !.state = "running"]]
            /\ pc' = [pc EXCEPT ![q] = "communicate"]
            /\ UNCHANGED <<pending, observed>>
       ELSE /\ pending' = [pending EXCEPT ![q] = SliceOnSpawnError]
            /\ pc' = [pc EXCEPT ![q] = "rmtree"]
            /\ observed' = [observed EXCEPT ![q].slicer = "spawn_error"]
            /\ UNCHANGED proc
    /\ UNCHANGED <<config, caught, uploads, tmpFs, material_enum, tmpOf,
                   slicing_result, cost_breakdown, retval, outcome, stages,
                   failNotifs, cleanupLog>>

\* the slicer process writes a file into its output directory (--outputdir,
\* --export-slicedata, slicer.py:138-141); it can do so as long as it runs and
\* the directory is there
SlicerWrites(q) ==
    /\ proc[q].state = "running"
    /\ proc[q].written < MaxFiles
    /\ tmpFs[tmpOf[q]].state = "exists"
    /\ \E f \in CandidateFiles :
        /\ f.name \notin Names(tmpFs[tmpOf[q]].files)
        /\ tmpFs' = [tmpFs EXCEPT ![tmpOf[q]].files = @ \cup {f}]
    /\ proc' = [proc EXCEPT ![q].written = @ + 1]
    /\ UNCHANGED <<config, caught, observed, uploads, pc, material_enum, tmpOf, pending,
                   slicing_result, cost_breakdown, retval, outcome, stages,
                   failNotifs, cleanupLog>>

\* the slicer process ends
SlicerExit(q) ==
    /\ proc[q].state = "running"
    /\ \E x \in ExitKinds :
        proc' = [proc EXCEPT ![q] = [state |-> "exited", returncode |-> x.returncode,
                                     stderr |-> x.stderr, stdout |-> x.stdout,
                                     written |-> @.written]]
    /\ UNCHANGED <<config, caught, observed, uploads, tmpFs, pc, material_enum, tmpOf, pending,
                   slicing_result, cost_breakdown, retval, outcome, stages,
                   failNotifs, cleanupLog>>

\* slicer.py:155-164: communicate() returns once the process has ended; the
\* returncode is checked and the output directory resolved
Communicate(q) ==
    /\ pc[q] = "communicate"
    /\ proc[q].state = "exited"
    /\ \E g \in FirstOf(GcodeFiles(tmpFs[tmpOf[q]].files)),
          j \in FirstOf(JsonFiles(tmpFs[tmpOf[q]].files)) :
        LET r == SliceAfterCommunicate(proc[q], tmpFs[tmpOf[q]].files, g, j)
        IN  /\ pending' = [pending EXCEPT ![q] = r.exc]
            /\ slicing_result' = [slicing_result EXCEPT ![q] =
                                     IF r.ok THEN r.value ELSE @]
    /\ stages' = [stages EXCEPT ![q] =
                     IF proc[q].returncode = 0 /\ Decode(proc[q].stdout).ok
                     THEN Append(@, "resolve") ELSE @]
    /\ observed' = [observed EXCEPT ![q] =
           [@ EXCEPT !.slicer = IF proc[q].returncode = 0 THEN "exit_zero"
                                ELSE "exit_nonzero",
                     !.stderr = proc[q].stderr,
                     !.resolved = proc[q].returncode = 0 /\ Decode(proc[q].stdout).ok,
                     !.gcode = GcodeFiles(tmpFs[tmpOf[q]].files) # {},
                     !.json = JsonFiles(tmpFs[tmpOf[q]].files) # {},
                     !.others = \E f \in tmpFs[tmpOf[q]].files :
                                    f.ext \notin {"gcode", "json"}]]
    /\ pc' = [pc EXCEPT ![q] = "rmtree"]
    /\ UNCHANGED <<config, caught, uploads, tmpFs, proc, material_enum, tmpOf,
                   cost_breakdown, retval, outcome, failNotifs, cleanupLog>>

\* slicer.py:155-157, 166-167: slicer_timeout passes before the process ends;
\* wait_for cancels communicate() and raises TimeoutError. Nothing ends the
\* process: it keeps running.
Timeout(q) ==
    /\ pc[q] = "communicate"
    /\ proc[q].state = "running"
    /\ pending' = [pending EXCEPT ![q] = SliceOnTimeout]
    /\ observed' = [observed EXCEPT ![q].slicer = "timeout"]
    /\ pc' = [pc EXCEPT ![q] = "rmtree"]
    /\ UNCHANGED <<config, caught, uploads, tmpFs, proc, material_enum, tmpOf,
                   slicing_result, cost_breakdown, retval, outcome, stages,
                   failNotifs, cleanupLog>>

\* slicer.py:124, leaving the with block: TemporaryDirectory.cleanup() is
\* shutil.rmtree, which first unlinks the entries it lists ...
Rmtree(q) ==
    /\ pc[q] = "rmtree"
    /\ tmpFs' = [tmpFs EXCEPT ![tmpOf[q]].files = {}]
    /\ pc' = [pc EXCEPT ![q] = "rmdir"]
    /\ UNCHANGED <<config, caught, observed, uploads, proc, material_enum, tmpOf, pending,
                   slicing_result, cost_breakdown, retval, outcome, stages,
                   failNotifs, cleanupLog>>

\* the exception leaving the with block: the one in flight, unless rmdir fails
RmdirResult(files, inFlight) ==
    IF files = {} THEN inFlight
    ELSE Exc("OSError", <<"Directory not empty: ", "temp_dir">>)

\* ... and then removes the directory itself, which fails (OSError, not
\* ignored by cleanup) when an entry has appeared since. slice_model is left
\* here: with its result, or with the exception in flight.
Rmdir(q) ==
    /\ pc[q] = "rmdir"
    /\ tmpFs' = [tmpFs EXCEPT ![tmpOf[q]].state =
                    IF tmpFs[tmpOf[q]].files = {} THEN "removed" ELSE @]
    /\ pending' = [pending EXCEPT ![q] = RmdirResult(tmpFs[tmpOf[q]].files, @)]
    /\ pc' = [pc EXCEPT ![q] =
                 AfterStep(RmdirResult(tmpFs[tmpOf[q]].files, pending[q]), "price")]
    /\ UNCHANGED <<config, caught, observed, uploads, proc, material_enum, tmpOf,
                   slicing_result, cost_breakdown, retval, outcome, stages,
                   failNotifs, cleanupLog>>

\* tasks.py:157-159. settings.material_prices is an untyped dict read from the
\* environment (config.py:81): a rate that is no number makes pricing.py:47 raise.
PriceStep(result, material_arg, ratesAreNumbers) ==
    IF ratesAreNumbers
    THEN [ok |-> TRUE, value |-> calculate_quote(result, material_arg), exc |-> NoExc]
    ELSE [ok |-> FALSE, value |-> NoCost,
          exc |-> Exc("TypeError", <<"can't multiply sequence by non-int of type 'float'">>)]

Price(q) ==
    /\ pc[q] = "price"
    /\ stages' = [stages EXCEPT ![q] = Append(@, "price")]
    /\ \E ratesAreNumbers \in BOOLEAN :
        LET r == PriceStep(slicing_result[q], material_enum[q], ratesAreNumbers)
        IN  /\ cost_breakdown' = [cost_breakdown EXCEPT ![q] = r.value]
            /\ pending' = [pending EXCEPT ![q] = r.exc]
            /\ pc' = [pc EXCEPT ![q] = AfterStep(r.exc, "notify")]
    /\ UNCHANGED <<config, caught, observed, uploads, tmpFs, proc, material_enum, tmpOf,
                   slicing_result, retval, outcome, failNotifs, cleanupLog>>

\* tasks.py:161-187
Notify(q) ==
    /\ pc[q] = "notify"
    /\ stages' = [stages EXCEPT ![q] = Append(@, "notify")]
    /\ \E sink \in SinkOutcomes :
        LET r == send_quote_notification(telegramConfigured, sink)
        IN  /\ pending' = [pending EXCEPT ![q] = r.exc]
            /\ observed' = [observed EXCEPT ![q].sink =
                                IF telegramConfigured THEN sink ELSE "unconfigured"]
            /\ retval' = [retval EXCEPT ![q] =
                             IF r.ok
                             THEN SuccessRecord(q, slicing_result[q], cost_breakdown[q], r.value)
                             ELSE @]
            /\ pc' = [pc EXCEPT ![q] = AfterStep(r.exc, "finally_exists")]
    /\ UNCHANGED <<config, caught, uploads, tmpFs, proc, material_enum, tmpOf,
                   slicing_result, cost_breakdown, outcome, failNotifs, cleanupLog>>

\* send_failure_notification under asyncio.run, tasks.py:120, 190-193:
\* asyncio.run itself can raise RuntimeError
AttemptOutcomes == SinkOutcomes \cup {"RuntimeError"}

send_failure_notification(configured, attempt) ==
    IF attempt = "RuntimeError"
    THEN Raised(Exc("RuntimeError", <<"asyncio.run() cannot be called">>))
    ELSE send_error_notification(configured, attempt)

\* tasks.py:114-127
Except(q) ==
    /\ pc[q] = "except"
    /\ \E attempt \in AttemptOutcomes :
        LET error_msg == pending[q].msg
            r         == send_failure_notification(telegramConfigured, attempt)
            escaping  == IF r.ok THEN NoExc ELSE SuppressFailureNotification(r)
        IN  /\ failNotifs' = [failNotifs EXCEPT ![q] =
                                 Append(@, [error_msg |-> error_msg,
                                            quote_id  |-> short_quote_id(q),
                                            attempt   |-> attempt])]
            /\ retval' = [retval EXCEPT ![q] =
                             IF escaping = NoExc THEN FailureRecord(q, error_msg)
                             ELSE Escaped(q, escaping)]
    /\ caught' = [caught EXCEPT ![q] = pending[q]]
    /\ pending' = [pending EXCEPT ![q] = NoExc]
    /\ pc' = [pc EXCEPT ![q] = AfterExcept]
    /\ UNCHANGED <<config, observed, uploads, tmpFs, proc, material_enum, tmpOf,
                   slicing_result, cost_breakdown, outcome, stages, cleanupLog>>

\* tasks.py:132: os.path.exists(file_path)
FinallyExists(q) ==
    /\ pc[q] = "finally_exists"
    /\ IF q \in uploads
       THEN /\ pc' = [pc EXCEPT ![q] = "finally_remove"]
            /\ UNCHANGED <<outcome, cleanupLog>>
       ELSE /\ pc' = [pc EXCEPT ![q] = "done"]
            /\ outcome' = [outcome EXCEPT ![q] = retval[q]]
            /\ cleanupLog' = [cleanupLog EXCEPT ![q] = "absent"]
    /\ UNCHANGED <<config, caught, observed, uploads, tmpFs, proc, material_enum, tmpOf, pending,
                   slicing_result, cost_breakdown, retval, stages, failNotifs>>

\* what os.remove can do with a file that is there
RemoveOutcomes == {"ok", "PermissionError"}

\* tasks.py:133-136: os.remove(file_path); the task returns
FinallyRemove(q) ==
    /\ pc[q] = "finally_remove"
    /\ \E r \in RemoveOutcomes :
        LET e == IF q \notin uploads
                 THEN Exc("FileNotFoundError", <<"No such file or directory">>)
                 ELSE IF r = "ok" THEN NoExc
                 ELSE Exc("PermissionError", <<"Permission denied">>)
        IN  /\ uploads' = IF e = NoExc THEN uploads \ {q} ELSE uploads
            /\ cleanupLog' = [cleanupLog EXCEPT ![q] =
                                 IF e = NoExc THEN "removed" ELSE "failed"]
            /\ outcome' = [outcome EXCEPT ![q] =
                              IF e = NoExc \/ CleanupCatches(e) THEN retval[q]
                              ELSE Escaped(q, e)]
    /\ pc' = [pc EXCEPT ![q] = "done"]
    /\ UNCHANGED <<config, caught, observed, tmpFs, proc, material_enum, tmpOf, pending,
                   slicing_result, cost_breakdown, retval, stages, failNotifs>>

Next ==
    \E q \in QuoteIds :
        \/ Start(q)
        \/ Validate(q)
        \/ ParseMaterialStep(q)
        \/ SliceEnter(q)
        \/ Spawn(q)
        \/ SlicerWrites(q)
        \/ SlicerExit(q)
        \/ Communicate(q)
        \/ Timeout(q)
        \/ Rmtree(q)
        \/ Rmdir(q)
        \/ Price(q)
        \/ Notify(q)
        \/ Except(q)
        \/ FinallyExists(q)
        \/ FinallyRemove(q)

Spec == Init /\ [][Next]_vars

----------------------------------------------------------------------------
(* Properties of process_quote_request and slice_model *)

Done(q) == pc[q] = "done"

Ran(q, stage) == \E i \in 1..Len(stages[q]) : stages[q][i] = stage

\* C1: when process_quote_request has ended, whatever its outcome (success,
\* validation failure, slicer failure, any other exception), the uploaded
\* file is gone unless the delete itself failed; and a failed delete leaves
\* the returned outcome what the run had produced before the cleanup.
C1_UploadDeletedOnEveryOutcome ==
    \A q \in QuoteIds :
        Done(q) =>
            /\ cleanupLog[q] # "failed" => q \notin uploads
            /\ outcome[q] = retval[q]

\* a run that failed and whose upload was deleted on the way out
C1_Witness ==
    \E q \in QuoteIds :
        /\ Done(q)
        /\ outcome[q].kind = "returned"
        /\ ~outcome[q].success
        /\ cleanupLog[q] = "removed"
        /\ q \notin uploads

StageRank == [validate |-> 1, slice |-> 2, resolve |-> 3, price |-> 4, notify |-> 5]

\* the stages run so far are a run of consecutive stages of the fixed order,
\* starting at validate, or at slice when there is no validator
StagesInOrder(s) ==
    /\ Len(s) > 0 => s[1] \in {"validate", "slice"}
    /\ \A i \in 1..(Len(s) - 1) : StageRank[s[i + 1]] = StageRank[s[i]] + 1

Failing(q) == pending[q] # NoExc \/ caught[q] # NoExc

\* C3: the stages run in the order validate, slice, resolve, price, notify,
\* each at most once; once a stage has raised, no further stage runs and the
\* run ends with the failure outcome.
C3_StagesInOrderStopAtFailure ==
    /\ [](\A q \in QuoteIds :
            /\ StagesInOrder(stages[q])
            /\ Done(q) /\ caught[q] # NoExc => ~outcome[q].success)
    /\ [][\A q \in QuoteIds : Failing(q) => stages'[q] = stages[q]]_vars

\* a run that validated and sliced, failed in the resolve stage and went no further
C3_Witness ==
    \E q \in QuoteIds :
        /\ Done(q)
        /\ stages[q] = <<"validate", "slice", "resolve">>
        /\ ~outcome[q].success

C5_OneFailureNotification ==
    \A q \in QuoteIds :
        Done(q) =>
            IF outcome[q].success
            THEN failNotifs[q] = << >>
            ELSE /\ Len(failNotifs[q]) = 1
                 /\ failNotifs[q][1].error_msg = outcome[q].error
                 /\ failNotifs[q][1].quote_id = short_quote_id(q)
                 /\ outcome[q] = FailureRecord(q, failNotifs[q][1].error_msg)

\* a failed run whose failure notification raised under asyncio.run
C5_Witness ==
    \E q \in QuoteIds :
        /\ Done(q)
        /\ Len(failNotifs[q]) = 1
        /\ failNotifs[q][1].attempt = "RuntimeError"
        /\ outcome[q].kind = "returned"
        /\ ~outcome[q].success

\* C6: when the validator reports is_valid = false, nothing is sliced, priced
\* or notified, and the run ends with a failure outcome whose error names the
\* invalid model.
C6_InvalidModelStopsTheRun ==
    \A q \in QuoteIds :
        observed[q].validation = "invalid" =>
            /\ stages[q] = <<"validate">>
            /\ tmpOf[q] = 0 /\ proc[q] = NoProc
            /\ slicing_result[q] = NoSlicing /\ cost_breakdown[q] = NoCost
            /\ observed[q].sink = "none"
            /\ Done(q) =>
                  /\ ~outcome[q].success
                  /\ outcome[q].error = <<"Invalid 3D model: ", "not a closed mesh">>

\* an ended run whose model the validator rejected
C6_Witness ==
    \E q \in QuoteIds :
        /\ Done(q)
        /\ observed[q].validation = "invalid"
        /\ outcome[q].kind = "returned"
        /\ outcome[q].error[1] = "Invalid 3D model: "

NoGcodeError == Exc("SlicerError", <<"Slicing failed: ", "No G-code output found">>)

\* C7: when the slicer process ends with a non-zero exit code, the run fails
\* with a slicer-execution error whose message carries the captured stderr,
\* nothing is priced or notified, and the upload is deleted all the same
\* (unless the delete itself fails).
C7_NonZeroExitCarriesStderr ==
    \A q \in QuoteIds :
        Done(q) /\ observed[q].slicer = "exit_nonzero" =>
            /\ caught[q].type = "SlicerError"
            /\ Len(caught[q].msg) = 3
            /\ caught[q].msg[2] = "Slicer failed: "
            /\ observed[q].stderr # "empty" => caught[q].msg[3] = "stderr text"
            /\ outcome[q] = FailureRecord(q, caught[q].msg)
            /\ ~Ran(q, "price") /\ ~Ran(q, "notify")
            /\ cleanupLog[q] # "failed" => q \notin uploads

TimedOutError == Exc("SlicerError", <<"Slicing operation timed out">>)

\* C8: when the slicer does not end within slicer_timeout, slice_model fails
\* with the 'Slicing operation timed out' error, which no non-zero exit
\* produces, and the run ends as a failure with that error, nothing priced or
\* notified.
C8_TimeoutIsReportedAsTimeout ==
    \A q \in QuoteIds :
        /\ Done(q) /\ observed[q].slicer = "timeout" =>
              /\ caught[q] = TimedOutError
              /\ outcome[q] = FailureRecord(q, TimedOutError.msg)
              /\ ~Ran(q, "price") /\ ~Ran(q, "notify")
        /\ Done(q) /\ observed[q].slicer = "exit_nonzero" => caught[q] # TimedOutError

LeftSliceModel(q) ==
    tmpOf[q] # 0 /\ pc[q] \notin {"spawn", "communicate", "rmtree", "rmdir"}

\* C9: the temporary output directory of a slice_model call is that call's
\* alone, and it is gone once the call has been left, by return or by any
\* exception, the timeout included.
C9_TempDirGoneOnEveryExit ==
    /\ \A q1, q2 \in QuoteIds : q1 # q2 /\ tmpOf[q1] # 0 => tmpOf[q1] # tmpOf[q2]
    /\ \A q \in QuoteIds : LeftSliceModel(q) => tmpFs[tmpOf[q]].state = "removed"

\* C10: resolving an output directory with no G-code file in it fails with
\* the 'No G-code output found' error whatever else is in the directory;
\* no default result is produced, nothing is priced or notified, and the run
\* ends as a failure.
C10_NoGcodeIsAnError ==
    \A q \in QuoteIds :
        observed[q].resolved /\ ~observed[q].gcode =>
            /\ pending[q] = NoGcodeError \/ caught[q] = NoGcodeError
            /\ slicing_result[q] = NoSlicing
            /\ ~Ran(q, "price") /\ ~Ran(q, "notify")
            /\ Done(q) => outcome[q] = FailureRecord(q, NoGcodeError.msg)

\* an ended run whose slicer exited with 0 and left a JSON file and a log,
\* but no G-code
C10_Witness ==
    \E q \in QuoteIds :
        /\ Done(q)
        /\ observed[q].resolved /\ ~observed[q].gcode
        /\ observed[q].json /\ observed[q].others
        /\ outcome[q].error = NoGcodeError.msg

----------------------------------------------------------------------------
(* The pure functions of the slicer and pricing services, called one at a
   time on inputs drawn from bounded sets *)

\* longest time string drawn character by character
MaxTimeLen == 3
\* most lines of a G-code file
MaxLines == 2
\* longest print time priced, in hours
MaxHours == 2

TimeAlphabet == {"0", "1", "3", "h", "m", "H", " ", ":", "x"}

TimeSamples ==
    { <<"1","h"," ","3","0","m">>, <<"9","0","m">>, <<"2","h">>, <<"4","5">>,
      <<"0","h"," ","0","m">>, <<"i","n","v","a","l","i","d">>,
      <<"T","i","m","e",":"," ","1","h","3","0","m">>,
      <<"1","m","1","0","h">>, <<"1","0","0","0","0","m","i","n">>,
      <<"2","h"," ","3","0","m">>, <<"0","h"," ","4","5","m">> }

TimeStrings == UNION {[1..n -> TimeAlphabet] : n \in 0..MaxTimeLen} \cup TimeSamples

LineFilamentBracket ==
    <<";"," ","f","i","l","a","m","e","n","t"," ","u","s","e","d"," ","[","g","]",":"," ","2","5",".","5">>

LineFilamentMm ==
    <<";"," ","f","i","l","a","m","e","n","t"," ","u","s","e","d"," ","[","m","m","]",":"," ","5","0","0","0",".","5">>

GcodeLines ==
    {LineTime2h30m, LineFilament125, LineG28, LineFilamentBracket, LineFilamentMm}

\* a G-code file: up to MaxLines lines, and the readline call that raises
GcodeContents ==
    { [lines |-> l, readError |-> e] :
        l \in UNION {[1..n -> GcodeLines] : n \in 0..MaxLines},
        e \in 0..(MaxLines + 1) }

ResolverFiles ==
    CandidateFiles \cup
    { JsonFile("result.json", TRUE, TRUE, JsonObject([print_time_minutes |-> Num(180)])),
      JsonFile("result.json", TRUE, TRUE, [type |-> "object", members |-> << >>]),
      JsonFile("result.json", TRUE, TRUE, [type |-> "array", len |-> 0]),
      JsonFile("result.json", TRUE, TRUE, [type |-> "number", v |-> 5]),
      JsonFile("result.json", TRUE, TRUE, [type |-> "number", v |-> 0]),
      JsonFile("result.json", TRUE, TRUE, None),
      JsonFile("result.json", FALSE, TRUE, None),
      JsonFile("metadata.json", TRUE, TRUE, JsonObject([filament_grams |-> Num(100)])),
      GcodeFile("plate_3.gcode", << >>, 1) }

\* output directories: at most MaxFiles entries, no name twice
ResolverDirs ==
    {d \in SUBSET ResolverFiles :
        /\ Cardinality(d) <= MaxFiles
        /\ \A f, g \in d : f.name = g.name => f = g}

\* settings as the environment can configure them (config.py:75-85)
SettingsChoices ==
    { Settings,
      [material_prices |-> [PLA |-> 20, PETG |-> 30], default_price_per_kg |-> 25,
       price_multiplier_num |-> 1, price_multiplier_den |-> 1,
       minimum_price |-> 5, additional_time_minutes |-> 0],
      [material_prices |-> [PETG |-> 40], default_price_per_kg |-> 22,
       price_multiplier_num |-> 11, price_multiplier_den |-> 10,
       minimum_price |-> 20, additional_time_minutes |-> 0] }

QuoteMinutes == {0, 12} \cup {60 * h : h \in 1..MaxHours}
\* tenths of a gram
QuoteGrams == {0, 125, 352, 1000}

MaterialArgs == MaterialType \cup {"None"}

runVars == <<rustAvailable, telegramConfigured, uploads, tmpFs, proc, pc,
             task_material, material_enum, tmpOf, pending, slicing_result,
             cost_breakdown, retval, outcome, stages, failNotifs, cleanupLog,
             caught, observed, http, scan>>

CallInit ==
    /\ rustAvailable = TRUE
    /\ telegramConfigured = TRUE
    /\ task_material = [q \in QuoteIds |-> << >>]
    /\ Queued
    /\ probe = NoCall

ParseTimeCall ==
    /\ probe = NoCall
    /\ \E s \in TimeStrings :
        probe' = [fn |-> "_parse_time_string", time_str |-> s,
                  result |-> _parse_time_string(s)]
    /\ UNCHANGED runVars

ParseGcodeCall ==
    /\ probe = NoCall
    /\ \E file \in GcodeContents :
        probe' = [fn |-> "_parse_gcode_metadata", file |-> file,
                  result |-> _parse_gcode_metadata(file)]
    /\ UNCHANGED runVars

ResolveCall ==
    /\ probe = NoCall
    /\ \E files \in ResolverDirs :
       \E g \in FirstOf(GcodeFiles(files)), j \in FirstOf(JsonFiles(files)) :
        probe' = [fn |-> "_parse_slice_results", files |-> files,
                  gcode_first |-> g, json_first |-> j,
                  result |-> _parse_slice_results(files, g, j)]
    /\ UNCHANGED runVars

QuoteCall ==
    /\ probe = NoCall
    /\ \E settings \in SettingsChoices, minutes \in QuoteMinutes, grams \in QuoteGrams :
        LET result == [print_time_minutes |-> minutes, filament_weight_grams |-> grams]
        IN  probe' = [fn |-> "calculate_quote", settings |-> settings,
                      result |-> result,
                      quotes |-> [m \in MaterialArgs |->
                                     PricingService_calculate_quote(settings, result, m)]]
    /\ UNCHANGED runVars

CallNext == ParseTimeCall \/ ParseGcodeCall \/ ResolveCall \/ QuoteCall

CallSpec == CallInit /\ [][CallNext]_vars

----------------------------------------------------------------------------
(* Properties of the resolvers, slicer.py:171-290 *)

Resolved == probe.fn = "_parse_slice_results"

\* the directory resolved holds G-code, and the JSON side-file read is a
\* key/value document
ResolvedWithJsonObject ==
    /\ Resolved
    /\ GcodeFiles(probe.files) # {}
    /\ JsonFiles(probe.files) # {}
    /\ probe.json_first.content.readable
    /\ probe.json_first.content.wellFormed
    /\ probe.json_first.content.value.type = "object"

\* C11: with a G-code file and a JSON side-file that is a key/value document,
\* the resolved SlicingResult has print_time_minutes from the JSON iff the
\* key print_time_minutes is in it and the filament weight from the JSON iff
\* the key filament_grams is in it; a key that is absent keeps the value
\* derived from the G-code.
C11_JsonOverridesPresentKeys ==
    ResolvedWithJsonObject =>
        LET meta    == _parse_gcode_metadata(probe.gcode_first.content)
            members == probe.json_first.content.value.members
            keys    == DOMAIN members
        IN  /\ (\A k \in keys : members[k].isNum /\ members[k].n >= 0) => probe.result.ok
            /\ probe.result.ok =>
                /\ probe.result.value.print_time_minutes =
                      IF "print_time_minutes" \in keys
                      THEN members["print_time_minutes"].n ELSE meta[1]
                /\ probe.result.value.filament_weight_grams =
                      IF "filament_grams" \in keys
                      THEN members["filament_grams"].n ELSE meta[2]

\* G-code that yields (60, 20.0) with the JSON {filament_grams: 35.2}
\* resolves to (60, 35.2)
C11_Witness ==
    /\ ResolvedWithJsonObject
    /\ _parse_gcode_metadata(probe.gcode_first.content) = <<60, 200>>
    /\ DOMAIN probe.json_first.content.value.members = {"filament_grams"}
    /\ probe.result.ok
    /\ probe.result.value = [print_time_minutes |-> 60, filament_weight_grams |-> 352]

\* the JSON side-file read is no key/value document: unreadable, malformed,
\* or well-formed JSON of another type
ResolvedWithUnusableJson ==
    /\ Resolved
    /\ GcodeFiles(probe.files) # {}
    /\ JsonFiles(probe.files) # {}
    /\ \/ ~probe.json_first.content.readable
       \/ ~probe.json_first.content.wellFormed
       \/ probe.json_first.content.value.type # "object"

\* C12: a JSON side-file that is no key/value document never makes the
\* resolution fail: whatever its content, _parse_slice_results raises nothing
\* and returns the values derived from the G-code.
C12_UnusableJsonNeverFails ==
    ResolvedWithUnusableJson =>
        LET meta == _parse_gcode_metadata(probe.gcode_first.content)
        IN  /\ probe.result.ok
            /\ probe.result.value = [print_time_minutes    |-> meta[1],
                                     filament_weight_grams |-> meta[2]]

ParsedGcode == probe.fn = "_parse_gcode_metadata"

\* the line carries one of the markers the scan looks for
HasMarker(raw) ==
    \/ Contains(Lower(Strip(raw)), TimeMarker)
    \/ Contains(Lower(Strip(raw)), FilamentMarker)
    \/ Contains(Lower(Strip(raw)), VolumeMarker)

\* the lines the scan gets to read
ScannedPrefix(file) == SubSeq(file.lines, 1, Min(ScanBudget, Len(file.lines)))

\* the readline call that raises is one the scan makes
ReadFails(file) ==
    file.readError # 0 /\ file.readError <= Min(ScanBudget, Len(file.lines) + 1)

\* C13: when the scanned prefix of the G-code file holds no printing-time
\* marker and no filament marker (an empty file, machine commands only),
\* _parse_gcode_metadata returns the fallback pair (60 minutes, 20.0 grams),
\* never (0, 0.0).
C13_NoMarkersGivesFallback ==
    ParsedGcode /\ (\A i \in 1..Len(ScannedPrefix(probe.file)) :
                        ~HasMarker(ScannedPrefix(probe.file)[i])) =>
        /\ probe.result = <<60, 200>>
        /\ probe.result # <<0, 0>>

\* C14: _parse_gcode_metadata raises nothing, and when opening or reading
\* the file fails at any line it returns exactly the fallback pair (60, 20.0),
\* whatever markers the lines read before had matched.
C14_ReadErrorGivesFallback ==
    ParsedGcode =>
        /\ probe.result \in Nat \X Nat
        /\ ReadFails(probe.file) => probe.result = <<60, 200>>

\* the first line gave 150 minutes, the read of the second line failed, and
\* the result is the fallback pair
C14_Witness ==
    /\ ParsedGcode
    /\ probe.file.readError = 2
    /\ Len(probe.file.lines) >= 1
    /\ ScanLines(probe.file.lines, 1) = <<150, 0>>
    /\ probe.result = <<60, 200>>

ParsedTime == probe.fn = "_parse_time_string"

----------------------------------------------------------------------------
(* Properties of PricingService.calculate_quote, pricing.py:15-71 *)

Quoted == probe.fn = "calculate_quote"

MinimumOf(settings) == settings.minimum_price * Dollar

\* C16: every cost breakdown calculate_quote returns has total_cost >=
\* minimum_price and total_cost = max(subtotal, minimum_price), and its
\* minimum_applied is true iff total_cost = minimum_price, which is iff
\* subtotal <= minimum_price.
C16_MinimumPriceApplied ==
    Quoted =>
        \A m \in MaterialArgs :
            LET c == probe.quotes[m]
            IN  /\ c.total_cost >= MinimumOf(probe.settings)
                /\ c.total_cost = Max(c.subtotal, MinimumOf(probe.settings))
                /\ c.minimum_applied <=> c.total_cost = MinimumOf(probe.settings)
                /\ c.minimum_applied <=> c.subtotal <= MinimumOf(probe.settings)

\* a quote whose subtotal lies below the minimum price and is raised to it
C16_Witness ==
    /\ Quoted
    /\ probe.quotes["PLA"].subtotal > 0
    /\ probe.quotes["PLA"].subtotal < MinimumOf(probe.settings)
    /\ probe.quotes["PLA"].total_cost = MinimumOf(probe.settings)
    /\ probe.quotes["PLA"].minimum_applied

Example18 == [print_time_minutes |-> 120, filament_weight_grams |-> 1000]

----------------------------------------------------------------------------
(* Properties of the material argument of process_quote_request *)

\* the task's material is given and, upper-cased, is no value of MaterialType
UnknownMaterial(q) ==
    /\ task_material[q] # << >>
    /\ \A e \in MaterialType : MaterialValue[e] # Upper(task_material[q])

\* C20: a requested material that is no known material never fails the
\* quote: the run goes on with PLA as the material it slices, prices and
\* notifies with, and it can end in the success outcome.
C20_UnknownMaterialFallsBackToPLA ==
    \A q \in QuoteIds :
        UnknownMaterial(q) =>
            /\ pc[q] = "slice_enter" => pending[q] = NoExc
            /\ Ran(q, "slice") => material_enum[q] = "PLA"
            /\ pc[q] = "notify" =>
                  cost_breakdown[q] = calculate_quote(slicing_result[q], "PLA")
            /\ Done(q) /\ outcome[q].success =>
                  /\ outcome[q].cost_breakdown.material_type = "PLA"
                  /\ outcome[q].cost_breakdown.price_per_kg = material_prices["PLA"]

\* a run asked for TPU that ended with a success outcome priced as PLA
C20_Witness ==
    \E q \in QuoteIds :
        /\ UnknownMaterial(q)
        /\ Done(q)
        /\ outcome[q].success
        /\ outcome[q].cost_breakdown.material_type = "PLA"

----------------------------------------------------------------------------
(* Properties of _parse_time_string stated on the text itself *)

\* the runs of digits of c that are directly followed by the letter `unit`
UnitRuns(c, unit) ==
    { r \in (1..Len(c)) \X (1..Len(c)) :
        /\ r[1] <= r[2]
        /\ \A k \in r[1]..r[2] : c[k] \in Digits
        /\ r[2] + 1 <= Len(c)
        /\ c[r[2] + 1] = unit }

\* the runs of digits of c that no digit follows
BareRuns(c) ==
    { r \in (1..Len(c)) \X (1..Len(c)) :
        /\ r[1] <= r[2]
        /\ \A k \in r[1]..r[2] : c[k] \in Digits
        /\ (r[2] = Len(c) \/ c[r[2] + 1] \notin Digits) }

\* the number written by the run that starts first (0 when there is none)
FirstNumber(c, runs) ==
    IF runs = {} THEN 0
    ELSE LET r == CHOOSE x \in runs : \A y \in runs : x[1] <= y[1]
         IN  IntOf(SubSeq(c, r[1], r[2]))

\* hours*60 + minutes of the components of c, else its first bare integer
ComponentMinutes(c) ==
    IF UnitRuns(c, "h") # {} \/ UnitRuns(c, "m") # {}
    THEN FirstNumber(c, UnitRuns(c, "h")) * 60 + FirstNumber(c, UnitRuns(c, "m"))
    ELSE FirstNumber(c, BareRuns(c))

----------------------------------------------------------------------------
(* Properties of calculate_quote across the materials *)

\* a quote computed under the default settings
QuotedByDefault == Quoted /\ probe.settings = Settings

----------------------------------------------------------------------------
(* Properties of _parse_gcode_metadata on the bracketed unit label *)

\* the file is read to its end without error and states its mass on a
\* '; filament used [g]: 25.5' line and in no other form
StatesBracketedGrams(file) ==
    /\ ~ReadFails(file)
    /\ \E i \in 1..Len(ScannedPrefix(file)) : file.lines[i] = LineFilamentBracket
    /\ \A i \in 1..Len(ScannedPrefix(file)) : file.lines[i] # LineFilament125

\* C25: a '; filament used [g]: 25.5' line, with or without a
\* '; filament used [mm]: ...' line before it, makes _parse_gcode_metadata
\* return 25.5 grams, and 150 minutes when the file also carries the line
\* '; estimated printing time (normal mode): 2h 30m'.
C25_BracketedGramsAreRead ==
    ParsedGcode /\ StatesBracketedGrams(probe.file) =>
        /\ probe.result[2] = 255
        /\ (\E i \in 1..Len(ScannedPrefix(probe.file)) :
                probe.file.lines[i] = LineTime2h30m) => probe.result[1] = 150

----------------------------------------------------------------------------
(* Properties of the slicer process *)

\* C30: once a quote has reached its final outcome, no slicer process started
\* for it is still running; in particular the process is terminated after
\* slice_model failed with a timeout.
C30_NoSlicerOutlivesItsQuote ==
    \A q \in QuoteIds :
        Done(q) => proc[q].state # "running"

----------------------------------------------------------------------------
(* The task state kept by the result backend, and get_task_status,
   main.py:217-238 *)

\* celery_app.AsyncResult(task_id).state of a process_quote_request task:
\* PENDING until the task has ended, SUCCESS when it returned a value, FAILURE
\* when an exception left it
AsyncResultState(q) ==
    IF ~Done(q) THEN "PENDING"
    ELSE IF outcome[q].kind = "returned" THEN "SUCCESS"
    ELSE "FAILURE"

\* the "status" field of the answer of get_task_status
get_task_status(state) ==
    IF state = "PENDING" THEN "processing"
    ELSE IF state = "SUCCESS" THEN "completed"
    ELSE IF state = "FAILURE" THEN "failed"
    ELSE state

\* C22: a quote whose processing hit a terminal failure leaves its task in
\* the failed task state: get_task_status reports 'failed' for it and never
\* 'completed'.
C22_FailedQuoteIsReportedFailed ==
    \A q \in QuoteIds :
        Done(q) /\ caught[q] # NoExc =>
            /\ AsyncResultState(q) = "FAILURE"
            /\ get_task_status(AsyncResultState(q)) = "failed"
            /\ get_task_status(AsyncResultState(q)) # "completed"

----------------------------------------------------------------------------
(* create_quote, main.py:82-208 *)

\* settings.max_file_size, counted in chunks of 8192 bytes
MaxChunks == 2

\* model_file.filename: none, one with a suffix that is not allowed, one with
\* an allowed suffix
Filenames == {"none", "model.exe", "model.stl"}

\* the custom filament profiles in the profile directory, as material names
ProfileSets == { {}, {<<"T","P","U">>} }

\* OrcaSlicerService.get_available_materials, slicer.py:82-101
get_available_materials(discovered) ==
    {MaterialValue[e] : e \in MaterialType} \cup discovered

\* main.py:110-126: TRUE when the material passes the check. An HTTPException
\* raised inside the try block is caught by its `except Exception` like a
\* failure of the slicer service, and the enum check decides.
MaterialAccepted(material, discovered, service_fails) ==
    IF material = << >> THEN TRUE
    ELSE IF ~service_fails /\ Upper(material) \in get_available_materials(discovered)
         THEN TRUE
         ELSE \E e \in MaterialType : MaterialValue[e] = Upper(material)

Proceed == [status |-> 0, detail |-> "none"]
Reject(status, detail) == [status |-> status, detail |-> detail]

\* main.py:97-147: the response that rejects the request, or Proceed.
\* secure_filename never returns "" for a name with an allowed suffix.
CheckRequest(r) ==
    IF r.filename = "none" THEN Reject(400, "No file provided")
    ELSE IF r.filename = "model.exe" THEN Reject(400, "File type not allowed")
    ELSE IF ~MaterialAccepted(r.material, r.discovered, r.service_fails)
         THEN Reject(400, "Invalid material")
    ELSE IF r.material # << >>
            /\ ~\E e \in MaterialType : MaterialValue[e] = Upper(r.material)
         THEN Reject(400, "not a valid MaterialType")
    ELSE IF ~r.form_valid THEN Reject(400, "QuoteRequest validation error")
    ELSE Proceed

\* an oversize branch that leaves the partial file
Oversize_keeps_partial(r1, r2) == [status |-> 413, removed |-> FALSE]

\* main.py:158-166, 170-178: the upload is larger than max_file_size. r1 is
\* what os.remove of line 162 does; when it raises, the handler of line 170
\* runs, r2 is what os.remove of line 174 does, and the answer is 500.
Oversize(r1, r2) ==
    IF r1 = "ok" THEN [status |-> 413, removed |-> TRUE]
    ELSE [status |-> 500, removed |-> r2 = "ok"]

\* main.py:170-178: reading or writing raised; r is what os.remove does
SaveError(r) == [status |-> 500, removed |-> r = "ok"]

\* main.py:200-208: delay() raised; r is what os.remove does
EnqueueError(r) == [status |-> 500, removed |-> r = "ok"]

\* "material": material or "PLA (default)", main.py:195
ReportedMaterial(material) ==
    IF material = << >> THEN <<"P","L","A"," ","(","d","e","f","a","u","l","t",")">>
    ELSE material

Requests ==
    [filename : Filenames, material : MaterialInputs, discovered : ProfileSets,
     service_fails : BOOLEAN, form_valid : BOOLEAN, chunks : 0..(MaxChunks + 1)]

\* what the steps of create_quote leave alone
apiFrame == <<rustAvailable, telegramConfigured, tmpFs, proc, material_enum, tmpOf,
              pending, slicing_result, cost_breakdown, retval, outcome, stages,
              failNotifs, cleanupLog, caught, observed, probe, scan>>

\* no request yet: no upload on disk, no task
ApiInit ==
    /\ rustAvailable = TRUE
    /\ telegramConfigured = TRUE
    /\ task_material = [q \in QuoteIds |-> << >>]
    /\ InitialRuns(QuoteIds, {}, "none")
    /\ probe = NoCall

\* the request arrives with its form fields and its file
Receive(q) ==
    /\ http[q].pc = "none"
    /\ \E r \in Requests :
        http' = [http EXCEPT ![q] =
                    [NoRequest EXCEPT !.pc = "received", !.filename = r.filename,
                                      !.material = r.material,
                                      !.discovered = r.discovered,
                                      !.service_fails = r.service_fails,
                                      !.form_valid = r.form_valid,
                                      !.chunks = r.chunks]]
    /\ UNCHANGED <<apiFrame, uploads, pc, task_material>>

\* main.py:97-147
Check(q) ==
    /\ http[q].pc = "received"
    /\ http' = [http EXCEPT ![q] =
                   IF CheckRequest(http[q]) = Proceed
                   THEN [@ EXCEPT !.pc = "open"]
                   ELSE [@ EXCEPT !.pc = "responded",
                                  !.status = CheckRequest(http[q]).status,
                                  !.detail = CheckRequest(http[q]).detail]]
    /\ UNCHANGED <<apiFrame, uploads, pc, task_material>>

\* main.py:155: aiofiles.open(file_path, "wb") creates the file, or raises and
\* the handler of line 170 finds no file to remove
Open(q) ==
    /\ http[q].pc = "open"
    /\ \E opened \in BOOLEAN :
        IF opened
        THEN /\ uploads' = uploads \cup {q}
             /\ http' = [http EXCEPT ![q].pc = "loop"]
        ELSE /\ uploads' = uploads
             /\ http' = [http EXCEPT ![q] =
                            [@ EXCEPT !.pc = "responded", !.status = 500,
                                      !.detail = "Failed to save file"]]
    /\ UNCHANGED <<apiFrame, pc, task_material>>

\* main.py:156-167: one turn of the loop
SaveChunk(q) ==
    /\ http[q].pc = "loop"
    /\ \E read_ok \in BOOLEAN, write_ok \in BOOLEAN, r1 \in RemoveOutcomes,
          r2 \in RemoveOutcomes :
        IF ~read_ok
        THEN /\ uploads' = IF SaveError(r1).removed THEN uploads \ {q} ELSE uploads
             /\ http' = [http EXCEPT ![q] =
                            [@ EXCEPT !.pc = "responded",
                                      !.status = SaveError(r1).status,
                                      !.remove_failed = ~SaveError(r1).removed,
                                      !.detail = "Failed to save file"]]
        ELSE IF http[q].read = http[q].chunks
        THEN /\ uploads' = uploads
             /\ http' = [http EXCEPT ![q].pc = "enqueue"]
        ELSE IF http[q].read + 1 > MaxChunks
        THEN /\ uploads' = IF Oversize(r1, r2).removed THEN uploads \ {q} ELSE uploads
             /\ http' = [http EXCEPT ![q] =
                            [@ EXCEPT !.pc = "responded", !.read = @ + 1,
                                      !.status = Oversize(r1, r2).status,
                                      !.remove_failed = ~Oversize(r1, r2).removed,
                                      !.detail = IF Oversize(r1, r2).status = 413
                                                 THEN "File too large"
                                                 ELSE "Failed to save file"]]
        ELSE IF write_ok
        THEN /\ uploads' = uploads
             /\ http' = [http EXCEPT ![q] = [@ EXCEPT !.read = @ + 1, !.written = @ + 1]]
        ELSE /\ uploads' = IF SaveError(r1).removed THEN uploads \ {q} ELSE uploads
             /\ http' = [http EXCEPT ![q] =
                            [@ EXCEPT !.pc = "responded", !.read = @ + 1,
                                      !.status = SaveError(r1).status,
                                      !.remove_failed = ~SaveError(r1).removed,
                                      !.detail = "Failed to save file"]]
    /\ UNCHANGED <<apiFrame, pc, task_material>>

\* main.py:180-208: process_quote_request.delay puts the task on the queue and
\* the answer is 202, or it raises, the file is removed and the answer is 500
Enqueue(q) ==
    /\ http[q].pc = "enqueue"
    /\ \E sent \in BOOLEAN, r \in RemoveOutcomes :
        IF sent
        THEN /\ pc' = [pc EXCEPT ![q] = "queued"]
             /\ task_material' = [task_material EXCEPT ![q] = http[q].material]
             /\ uploads' = uploads
             /\ http' = [http EXCEPT ![q] =
                            [@ EXCEPT !.pc = "responded", !.status = 202,
                                      !.detail = "Quote request received",
                                      !.reported = ReportedMaterial(http[q].material),
                                      !.enqueued = TRUE]]
        ELSE /\ uploads' = IF EnqueueError(r).removed THEN uploads \ {q} ELSE uploads
             /\ http' = [http EXCEPT ![q] =
                            [@ EXCEPT !.pc = "responded",
                                      !.status = EnqueueError(r).status,
                                      !.remove_failed = ~EnqueueError(r).removed,
                                      !.detail = "Failed to start processing"]]
             /\ UNCHANGED <<pc, task_material>>
    /\ UNCHANGED apiFrame

ApiNext ==
    \E q \in QuoteIds :
        \/ Receive(q)
        \/ Check(q)
        \/ Open(q)
        \/ SaveChunk(q)
        \/ Enqueue(q)

ApiSpec == ApiInit /\ [][ApiNext]_vars

----------------------------------------------------------------------------
(* Properties of create_quote *)

Responded(q) == http[q].pc = "responded"

\* the request names a material that the slicer service lists as available
\* and that is no member of MaterialType, and is valid otherwise
CustomMaterialRequest(q) ==
    /\ http[q].material # << >>
    /\ ~http[q].service_fails
    /\ Upper(http[q].material) \in get_available_materials(http[q].discovered)
    /\ ~\E e \in MaterialType : MaterialValue[e] = Upper(http[q].material)
    /\ http[q].filename = "model.stl"
    /\ http[q].form_valid
    /\ http[q].chunks <= MaxChunks

\* C26: create_quote accepts a custom material that the slicer service lists
\* as available (e.g. 'TPU'): unless saving the file or starting the task
\* fails (500), the answer is 202, it reports that material, and the
\* background task is enqueued.
C26_CustomMaterialAccepted ==
    \A q \in QuoteIds :
        Responded(q) /\ CustomMaterialRequest(q) /\ http[q].status # 500 =>
            /\ http[q].status = 202
            /\ http[q].reported = http[q].material
            /\ http[q].enqueued

----------------------------------------------------------------------------
(* cleanup_old_files, tasks.py:196-238, next to one process_quote_request *)

\* a file in the upload directory that belongs to no queued task
Leftover == 0

\* the orders in which glob("*") can list the files
Listings(files) ==
    {l \in UNION {[1..n -> files] : n \in 0..Cardinality(files)} :
        /\ Len(l) = Cardinality(files)
        /\ \A i, j \in 1..Len(l) : i # j => l[i] # l[j]}

\* the loop of tasks.py:216 goes on to the next file, or ends and the task
\* returns success (tasks.py:226-231)
NextFile(s) ==
    IF Len(s.listing) > 1
    THEN [s EXCEPT !.listing = Tail(@), !.pc = "is_file"]
    ELSE [s EXCEPT !.listing = << >>, !.pc = "done", !.result = "success"]

\* tasks.py:233-238: an exception ends the scan
ScanFailed(s, type) == [s EXCEPT !.pc = "done", !.result = type]

\* stat() or unlink() of a file that is gone raises FileNotFoundError
OnMissing(s) == ScanFailed(s, "FileNotFoundError")

sweepFrame == <<rustAvailable, telegramConfigured, tmpFs, proc, pc, task_material,
                material_enum, tmpOf, pending, slicing_result, cost_breakdown,
                retval, outcome, stages, failNotifs, cleanupLog, caught, observed,
                probe, http>>

\* tasks.py:209-216: the cutoff is computed (`old` are the files whose mtime
\* lies before it) and glob lists the directory
ScanStart ==
    /\ scan.pc = "idle"
    /\ \E old \in SUBSET uploads, l \in Listings(uploads) :
        scan' = IF l = << >>
                THEN [scan EXCEPT !.old = old, !.pc = "done", !.result = "success"]
                ELSE [scan EXCEPT !.old = old, !.listing = l, !.pc = "is_file"]
    /\ UNCHANGED <<sweepFrame, uploads>>

\* tasks.py:217: file_path.is_file() is False for a file that is gone
ScanIsFile ==
    /\ scan.pc = "is_file"
    /\ scan' = IF Head(scan.listing) \in uploads
               THEN [scan EXCEPT !.pc = "stat_mtime"]
               ELSE NextFile(scan)
    /\ UNCHANGED <<sweepFrame, uploads>>

\* tasks.py:218-219: file_path.stat().st_mtime against the cutoff
ScanStatMtime ==
    /\ scan.pc = "stat_mtime"
    /\ scan' = IF Head(scan.listing) \notin uploads THEN OnMissing(scan)
               ELSE IF Head(scan.listing) \in scan.old
                    THEN [scan EXCEPT !.pc = "stat_size"]
                    ELSE NextFile(scan)
    /\ UNCHANGED <<sweepFrame, uploads>>

\* tasks.py:220: file_path.stat().st_size
ScanStatSize ==
    /\ scan.pc = "stat_size"
    /\ scan' = IF Head(scan.listing) \notin uploads THEN OnMissing(scan)
               ELSE [scan EXCEPT !.pc = "unlink"]
    /\ UNCHANGED <<sweepFrame, uploads>>

\* tasks.py:221-224: file_path.unlink()
ScanUnlink ==
    /\ scan.pc = "unlink"
    /\ \E r \in RemoveOutcomes :
        IF Head(scan.listing) \notin uploads
        THEN /\ scan' = OnMissing(scan)
             /\ uploads' = uploads
        ELSE IF r = "ok"
        THEN /\ scan' = NextFile([scan EXCEPT !.cleaned = @ \cup {Head(scan.listing)}])
             /\ uploads' = uploads \ {Head(scan.listing)}
        ELSE /\ scan' = ScanFailed(scan, "PermissionError")
             /\ uploads' = uploads
    /\ UNCHANGED sweepFrame

\* one task is queued; its upload and a leftover file are in the directory
SweepInit ==
    /\ rustAvailable = TRUE
    /\ telegramConfigured = TRUE
    /\ task_material = [q \in QuoteIds |-> << >>]
    /\ InitialRuns(QuoteIds, QuoteIds \cup {Leftover}, "queued")
    /\ probe = NoCall

SweepNext ==
    \/ \E q \in QuoteIds :
        \/ Start(q)
        \/ Validate(q)
        \/ ParseMaterialStep(q)
        \/ SliceEnter(q)
        \/ Spawn(q)
        \/ SlicerWrites(q)
        \/ SlicerExit(q)
        \/ Communicate(q)
        \/ Timeout(q)
        \/ Rmtree(q)
        \/ Rmdir(q)
        \/ Price(q)
        \/ Notify(q)
        \/ Except(q)
        \/ FinallyExists(q)
        \/ FinallyRemove(q)
    \/ ScanStart
    \/ ScanIsFile
    \/ ScanStatMtime
    \/ ScanStatSize
    \/ ScanUnlink

SweepSpec == SweepInit /\ [][SweepNext]_vars

----------------------------------------------------------------------------
(* Properties of cleanup_old_files next to a run *)

ModelFileNotFound == Exc("SlicerError", <<"Model file not found: ", "model_path">>)

\* C28: cleanup_old_files never removes the upload of a quote whose
\* process_quote_request has not reached its final outcome, however long the
\* task has waited in the queue; slice_model never finds its model file
\* already deleted.
C28_CleanupSparesUnfinishedQuotes ==
    \A q \in QuoteIds :
        /\ q \in scan.cleaned => Done(q)
        /\ pending[q] # ModelFileNotFound
        /\ caught[q] # ModelFileNotFound

\* C29: a scan that runs while process_quote_request deletes its own upload
\* still returns success and removes every other file older than the cutoff:
\* a file that disappears between being listed and being inspected or
\* unlinked does not abort the scan; and the quote's own cleanup tolerates
\* the file having been removed by the scan, the outcome staying what the
\* run had produced.
C29_ScanSurvivesVanishingFiles ==
    /\ scan.pc = "done" =>
          /\ scan.result # "FileNotFoundError"
          /\ scan.result = "success" => scan.old \cap uploads = {}
    /\ \A q \in QuoteIds : Done(q) => outcome[q] = retval[q]

----------------------------------------------------------------------------
(* Two process_quote_request runs side by side *)

Pair == {1, 2}

\* what the slicer processes of the two runs write, and how they end
PairFiles ==
    { GcodeFile("plate_1.gcode", <<LineTime2h30m, LineFilament125>>, 0) }
PairExits ==
    { [returncode |-> 0, stderr |-> "empty", stdout |-> "text"],
      [returncode |-> 1, stderr |-> "text",  stdout |-> "text"] }

\* the surroundings of the two runs are kept to these cases: the files and
\* exits above, numeric rates, a Bot API that answers, a delete that works
PairCases ==
    /\ \A d \in TmpNames : tmpFs[d].files \subseteq PairFiles
    /\ \A q \in Pair :
        /\ proc[q].state = "exited" =>
              [returncode |-> proc[q].returncode, stderr |-> proc[q].stderr,
               stdout |-> proc[q].stdout] \in PairExits
        /\ pending[q].type # "TypeError"
        /\ observed[q].sink \in {"none", "ok"}
        /\ \A i \in 1..Len(failNotifs[q]) : failNotifs[q][i].attempt = "ok"
        /\ cleanupLog[q] # "failed"

\* two tasks are queued, each with its own upload
PairInit ==
    /\ rustAvailable = FALSE
    /\ telegramConfigured = TRUE
    /\ task_material = [q \in Pair |-> << >>]
    /\ QueuedRuns(Pair)
    /\ probe = NoCall

\* tasks.py:68-69: the run is a Celery task; the worker that executes it can be
\* stopped or the task revoked at any point after it was taken. Nothing of the
\* function runs from there on: no except clause, no finally block.
Cancel(q) ==
    /\ pc[q] \notin {"queued", "done", "cancelled"}
    /\ pc' = [pc EXCEPT ![q] = "cancelled"]
    /\ UNCHANGED <<config, caught, observed, uploads, tmpFs, proc, material_enum, tmpOf,
                   pending, slicing_result, cost_breakdown, retval, outcome, stages,
                   failNotifs, cleanupLog>>

PairNext ==
    \E q \in Pair :
        \/ Cancel(q) /\ PairCases'
        \/ Start(q) /\ PairCases'
        \/ Validate(q) /\ PairCases'
        \/ ParseMaterialStep(q) /\ PairCases'
        \/ SliceEnter(q) /\ PairCases'
        \/ Spawn(q) /\ PairCases'
        \/ SlicerWrites(q) /\ PairCases'
        \/ SlicerExit(q) /\ PairCases'
        \/ Communicate(q) /\ PairCases'
        \/ Timeout(q) /\ PairCases'
        \/ Rmtree(q) /\ PairCases'
        \/ Rmdir(q) /\ PairCases'
        \/ Price(q) /\ PairCases'
        \/ Notify(q) /\ PairCases'
        \/ Except(q) /\ PairCases'
        \/ FinallyExists(q) /\ PairCases'
        \/ FinallyRemove(q) /\ PairCases'

PairSpec == PairInit /\ [][PairNext]_vars

----------------------------------------------------------------------------
(* Independence of two runs *)

\* what belongs to run q: its position and results, its slicer process, its
\* upload, and the temporary directory of its slice_model call
Own(q) ==
    <<pc[q], material_enum[q], tmpOf[q], pending[q], slicing_result[q],
      cost_breakdown[q], retval[q], outcome[q], stages[q], failNotifs[q],
      cleanupLog[q], caught[q], observed[q], proc[q], q \in uploads,
      IF tmpOf[q] = 0 THEN [state |-> "unused", files |-> {}] ELSE tmpFs[tmpOf[q]]>>

\* every step of the run q, its cancellation included
RunStep(q) ==
    \/ Start(q) \/ Validate(q) \/ ParseMaterialStep(q) \/ SliceEnter(q)
    \/ Spawn(q) \/ SlicerWrites(q) \/ SlicerExit(q) \/ Communicate(q)
    \/ Timeout(q) \/ Rmtree(q) \/ Rmdir(q) \/ Price(q) \/ Notify(q)
    \/ Except(q) \/ FinallyExists(q) \/ FinallyRemove(q) \/ Cancel(q)

\* the two runs never hold the same temporary directory
PrivateTmp == \A q, r \in Pair : q # r /\ tmpOf[q] # 0 => tmpOf[q] # tmpOf[r]

\* nothing the other run does reaches run q: its upload is there until its own
\* finally block, its temporary directory until its own cleanup, and what it
\* returns is what it had produced
Undisturbed(q) ==
    /\ cleanupLog[q] = "none" => q \in uploads
    /\ cleanupLog[q] # "absent"
    /\ pc[q] \in {"spawn", "communicate", "rmtree", "rmdir"} =>
          tmpFs[tmpOf[q]].state = "exists"
    /\ pending[q] # ModelFileNotFound /\ caught[q] # ModelFileNotFound
    /\ pending[q].type # "FileExistsError" /\ caught[q].type # "FileExistsError"
    /\ Done(q) => outcome[q] = retval[q]

\* C21: two process_quote_request runs on distinct uploads are independent in
\* every interleaving: whatever changes what belongs to a run (its outcome,
\* its temporary directory, its upload and the cleanup of it) is a step of
\* that run itself, as when it runs alone; the two runs never share a
\* temporary directory; and a failure, timeout or cancellation of one run
\* neither changes the other's outcome nor removes its upload or directory.
C21_RunsAreIndependent ==
    /\ [](PrivateTmp /\ \A q \in Pair : Undisturbed(q))
    /\ [][\A q \in Pair : Own(q)' # Own(q) => RunStep(q)]_vars

\* one run was cancelled after its slicer timed out, with its upload and its
\* directory left behind; the other, which sliced in between, ended with a quote
C21_Witness ==
    \E q, r \in Pair :
        /\ q # r
        /\ pc[q] = "cancelled" /\ observed[q].slicer = "timeout"
        /\ q \in uploads /\ tmpFs[tmpOf[q]].state = "exists"
        /\ Done(r) /\ outcome[r].success
        /\ tmpOf[r] # 0 /\ tmpOf[r] # tmpOf[q]
        /\ r \notin uploads /\ tmpFs[tmpOf[r]].state = "removed"

====
